---- MODULE Spec2Model ----
(***************************************************************************)
(* Model of the Vulkan pipeline cache of shadPS4                           *)
(* (src/video_core/renderer_vulkan/vk_pipeline_cache.cpp).                 *)
(*                                                                         *)
(* A session is a sequence of GetGraphicsPipeline / GetComputePipeline     *)
(* calls.  Each call reads the register snapshot liverpool->regs, which    *)
(* the command processor may have rewritten since the previous call; the   *)
(* snapshot read by a call is that call's input.  The caches (program      *)
(* cache with its permutations, the two pipeline maps) and the members     *)
(* graphics_key, compute_key, infos, modules persist between calls.        *)
(* The variable history records, per call, what the call read and what it  *)
(* returned; it is not state of the program.  The variable driver_faults   *)
(* says which module and pipeline creations the native driver refuses; a   *)
(* refused creation leaves the call as an exception, and the session goes  *)
(* on with the next call.  Spec is the session on a driver that refuses    *)
(* nothing.                                                                *)
(***************************************************************************)
EXTENDS Integers, Sequences, FiniteSets, TLC

VARIABLES
    regs,               \* liverpool->regs as read by the latest call
    skip_hashes,        \* the denylist of ShouldSkipShader (fixed per session)
    program_cache,      \* content hash -> Program (info + permutations)
    num_modules,        \* number of vk::ShaderModule handles created so far
    graphics_pipelines, \* GraphicsPipelineKey -> GraphicsPipeline*
    compute_pipelines,  \* compute key (u64) -> ComputePipeline*
    num_pipelines,      \* number of pipeline objects the two pools created
    graphics_key,       \* member graphics_key
    compute_key,        \* member compute_key
    infos,              \* member infos[MaxShaderStages]
    modules,            \* member modules[MaxShaderStages]
    driver_faults,      \* which creations the native driver refuses (fixed)
    history             \* one record per call made so far

vars == <<regs, skip_hashes, program_cache, num_modules, graphics_pipelines,
          compute_pipelines, num_pipelines, graphics_key, compute_key, infos,
          modules, driver_faults, history>>

-----------------------------------------------------------------------------
(* Bounds of the model and constants of the program.                       *)

\* Number of pipeline requests in a session.
MaxCalls == 3

\* Number of pipeline requests in a session that draws from the wide set of
\* register snapshots.
MaxWideCalls == 2

\* Liverpool::NumColorBuffers, the hardware color-buffer slots.
NumColorBuffers == 8

\* Shader stages walked by the stage loop of RefreshGraphicsKey.
MaxShaderStages == 5

\* u32(Shader::Stage::Fragment): the index of the fragment stage in infos.
FragmentIndex == 0

\* The index of the vertex stage.
VertexIndex == 1

\* The stage whose program makes a draw a tessellation draw
\* (regs.ProgramForStage(3), regs.stage_enable.IsStageEnabled(3)).
TessIndex == 3

Null == 0           \* a null pipeline pointer, VK_NULL_HANDLE
NullInfo == <<>>    \* a null const Shader::Info*; <<info>> points to info
Undefined == "eUndefined"   \* vk::Format::eUndefined

Stages == 0..(MaxShaderStages - 1)
Slots == 0..(NumColorBuffers - 1)

-----------------------------------------------------------------------------
(* u64 arithmetic.  A u64 is four 16-bit limbs, least significant first,   *)
(* so that every operation wraps around at 2^64 as it does in the program. *)

Limb == 2^16

Zero64 == <<0, 0, 0, 0>>

\* The u64 value of a small natural number (a permutation index).
ToU64(n) == <<n % Limb, (n \div Limb) % Limb, 0, 0>>

\* The sum of limb i of a and b and the carry out of the limbs below.
RECURSIVE LimbSum(_, _, _)
LimbSum(a, b, i) ==
    a[i] + b[i] + (IF i = 1 THEN 0 ELSE LimbSum(a, b, i - 1) \div Limb)

U64Add(a, b) ==
    <<LimbSum(a, b, 1) % Limb, LimbSum(a, b, 2) % Limb,
      LimbSum(a, b, 3) % Limb, LimbSum(a, b, 4) % Limb>>

RECURSIVE XorBits(_, _, _)
XorBits(p, q, n) ==
    IF n = 0 THEN 0
    ELSE ((p + q) % 2) + 2 * XorBits(p \div 2, q \div 2, n - 1)

U64Xor(a, b) ==
    <<XorBits(a[1], b[1], 16), XorBits(a[2], b[2], 16),
      XorBits(a[3], b[3], 16), XorBits(a[4], b[4], 16)>>

\* seed << 6
U64Shl6(a) ==
    <<(a[1] * 64) % Limb,
      ((a[2] * 64) % Limb) + (a[1] \div 1024),
      ((a[3] * 64) % Limb) + (a[2] \div 1024),
      ((a[4] * 64) % Limb) + (a[3] \div 1024)>>

\* seed >> 2
U64Shr2(a) ==
    <<(a[1] \div 4) + ((a[2] % 4) * 16384),
      (a[2] \div 4) + ((a[3] % 4) * 16384),
      (a[3] \div 4) + ((a[4] % 4) * 16384),
      a[4] \div 4>>

\* 0x9e3779b9
Golden == <<31161, 40503, 0, 0>>

\* A mixing function that forgets its second argument.
HashCombineDropsIndex(seed, hash) ==
    U64Xor(seed, U64Add(U64Add(Golden, U64Shl6(seed)), U64Shr2(seed)))

\* seed ^ (hash + 0x9e3779b9 + (seed << 6) + (seed >> 2))
HashCombine(seed, hash) ==
    U64Xor(seed, U64Add(U64Add(U64Add(hash, Golden), U64Shl6(seed)), U64Shr2(seed)))

-----------------------------------------------------------------------------
(* The shaders of the guest.  The translator is an external collaborator:  *)
(* what it reports about a shader (its render-target mask, its number of   *)
(* resource bindings) is a function of the shader's code, named here by    *)
(* the content hash.                                                       *)

HashPsA == <<40912, 60930, 10895, 60512>>   \* 0xec602a8fee029fd0
HashVsB == <<38401,  8689, 19243, 25989>>   \* 0x65854b2b21f19601
HashCsC == << 5833, 18283,  4198, 31039>>   \* 0x793f1066476b16c9
HashPsD == << 5168, 23524, 17579, 64863>>   \* 0xfd5f44ab5be41430

Hashes == {HashPsA, HashVsB, HashCsC, HashPsD}

\* Shader::Info::mrt_mask after translation: the render targets the shader exports to.
ShaderMrtMask(hash) ==
    IF hash = HashPsA THEN {0, 1}
    ELSE IF hash = HashPsD THEN {1}
    ELSE {}

\* Shader::Info::NumBindings() after translation.
ShaderNumBindings(hash) ==
    IF hash = HashPsA THEN 2
    ELSE IF hash = HashPsD THEN 1
    ELSE IF hash = HashVsB THEN 1
    ELSE 3

\* HashCombine(hash, perm_idx) for the shaders and the permutation indices a
\* session reaches, computed once.
DedupHashes ==
    [hash \in Hashes, perm_idx \in 0..(2 * MaxCalls) |->
        HashCombine(hash, ToU64(perm_idx))]

\* HashCombine(params.hash, perm_idx), perm_idx a size_t.
DedupHash(hash, perm_idx) ==
    IF <<hash, perm_idx>> \in DOMAIN DedupHashes
    THEN DedupHashes[hash, perm_idx]
    ELSE HashCombine(hash, ToU64(perm_idx))

\* The denylists a session may be built with (the shipped one is empty).
SkipLists == {{}, {HashPsD}}

-----------------------------------------------------------------------------
(* The register snapshot (AmdGpu::Liverpool::Regs), the fields the cache   *)
(* reads.                                                                  *)

\* ShaderProgram::settings
Settings(user_regs) ==
    [num_user_regs |-> user_regs, vgpr_comp_cnt |-> 1, num_vgprs |-> 2]

\* A stage's ShaderProgram with the binary-info header in front of its code:
\* address is 0 for a program that is not bound, valid is BinaryInfo::Valid(),
\* hash is BinaryInfo::shader_hash (and ShaderParams::hash).
Pgm(address, valid, hash, user_regs) ==
    [address |-> address, valid |-> valid, hash |-> hash,
     settings |-> Settings(user_regs)]

NoPgm == Pgm(0, FALSE, Zero64, 0)

\* A color buffer: bound is operator bool (a base address is set).
ColorBuffer(format, comp_swap, blend_bypass) ==
    [bound |-> TRUE, format |-> format, comp_swap |-> comp_swap,
     blend_bypass |-> blend_bypass]

NoColorBuffer ==
    [bound |-> FALSE, format |-> "Invalid", comp_swap |-> "Standard",
     blend_bypass |-> FALSE]

\* BlendControl of a slot; the default-constructed one is NoBlend.
Blend(enable, func) == [enable |-> enable, func |-> func]

NoBlend == Blend(FALSE, 0)

\* VsOutputControl
NoVsOutputControl ==
    [use_vtx_point_size |-> FALSE, use_vtx_edge_flag |-> FALSE,
     use_vtx_gs_cut_flag |-> FALSE, use_vtx_kill_flag |-> FALSE,
     use_vtx_render_target_idx |-> FALSE, use_vtx_viewport_idx |-> FALSE,
     clip_dist |-> {}, cull_dist |-> {}]

\* The compute program registers.
CsPgm(hash, shared_mem_size) ==
    [hash |-> hash, settings |-> Settings(4), num_thread |-> <<8, 8, 1>>,
     tgid_enable |-> <<TRUE, TRUE, FALSE>>, shared_mem_size |-> shared_mem_size]

\* The registers after reset: everything zero.
PowerOnRegs ==
    [primitive_type |-> "None",
     color_control_mode |-> "Disable",
     depth_control |-> [depth_enable |-> FALSE, depth_write_enable |-> FALSE,
                        stencil_enable |-> FALSE],
     depth_clear_enable |-> FALSE,
     z_format |-> "Invalid",
     stencil_format |-> "Invalid",
     stencil_control |-> 0,
     polygon_control |-> [needs_bias |-> FALSE, poly_mode |-> "Fill",
                          cull_mode |-> "None", front_face |-> "CCW"],
     clip_space |-> "MinusWToW",
     num_samples |-> 1,
     enable_primitive_restart |-> 0,
     primitive_restart_index |-> 0,
     color_buffers |-> [cb \in Slots |-> NoColorBuffer],
     color_target_mask |-> [cb \in Slots |-> 0],
     color_shader_mask |-> [cb \in Slots |-> 0],
     blend_control |-> [cb \in Slots |-> NoBlend],
     stage_enable |-> [i \in Stages |-> FALSE],
     programs |-> [i \in Stages |-> NoPgm],
     vs_output_control |-> NoVsOutputControl,
     num_interp |-> 0,
     ps_inputs |-> <<>>,
     cs_program |-> CsPgm(Zero64, 0)]

\* The formats of the color buffers the guest binds, one per slot, so that an
\* entry of the key names the slot it came from.
SlotFormat(cb) ==
    IF cb = 0 THEN "R8G8B8A8Unorm"
    ELSE IF cb = 1 THEN "R16G16B16A16Sfloat"
    ELSE "R32Sfloat"

\* An ordinary draw: triangle list, color buffer 0 bound and written, a pixel
\* and a vertex shader.
BaseRegs ==
    [PowerOnRegs EXCEPT
        !.primitive_type = "TriangleList",
        !.color_control_mode = "Normal",
        !.depth_control = [depth_enable |-> TRUE, depth_write_enable |-> TRUE,
                           stencil_enable |-> FALSE],
        !.z_format = "Z32Float",
        !.color_buffers[0] = ColorBuffer(SlotFormat(0), "Alternate", FALSE),
        !.color_target_mask[0] = 15,
        !.color_shader_mask[0] = 15,
        !.blend_control[0] = Blend(TRUE, 1),
        !.stage_enable[FragmentIndex] = TRUE,
        !.stage_enable[VertexIndex] = TRUE,
        !.programs[FragmentIndex] = Pgm(1, TRUE, HashPsA, 2),
        !.programs[VertexIndex] = Pgm(1, TRUE, HashVsB, 3),
        !.vs_output_control.use_vtx_point_size = TRUE,
        !.num_interp = 1,
        !.ps_inputs = <<[input_offset |-> 0, use_default |-> FALSE,
                         flat_shade |-> FALSE, default_value |-> 0]>>,
        !.cs_program = CsPgm(HashCsC, 0)]

\* Color buffer 1 bound and written as well; its blending is bypassed.
WithSlot1(r) ==
    [r EXCEPT
        !.color_buffers[1] = ColorBuffer(SlotFormat(1), "Standard", TRUE),
        !.color_target_mask[1] = 7,
        !.color_shader_mask[1] = 7,
        !.blend_control[1] = Blend(TRUE, 2)]

\* Color buffer 0 not bound.
WithoutSlot0(r) == [r EXCEPT !.color_buffers[0] = NoColorBuffer]

\* The register snapshots of the draws of a session.
GraphicsRegStates ==
    {
     BaseRegs,
     \* another pixel shader, which exports to render target 1 only
     [BaseRegs EXCEPT !.programs[FragmentIndex] = Pgm(1, TRUE, HashPsD, 2)],
     \* other vertex shader settings and outputs
     [BaseRegs EXCEPT !.programs[VertexIndex] = Pgm(1, TRUE, HashVsB, 5),
                      !.vs_output_control.clip_dist = {0, 5}],
     \* two color buffers
     WithSlot1(BaseRegs),
     \* color buffer 1 alone, pixel shader exporting to render target 1
     WithoutSlot0(WithSlot1(
        [BaseRegs EXCEPT !.programs[FragmentIndex] = Pgm(1, TRUE, HashPsD, 2)])),
     \* tessellation draws
     [BaseRegs EXCEPT !.primitive_type = "PatchPrimitive"],
     [BaseRegs EXCEPT !.stage_enable[TessIndex] = TRUE,
                      !.programs[TessIndex] = Pgm(1, TRUE, HashCsC, 0)],
     [BaseRegs EXCEPT !.programs[TessIndex] = Pgm(1, TRUE, HashCsC, 0)],
     [BaseRegs EXCEPT !.stage_enable[TessIndex] = TRUE,
                      !.programs[TessIndex] = Pgm(1, FALSE, Zero64, 0),
                      !.programs[FragmentIndex] = NoPgm,
                      !.programs[VertexIndex] = NoPgm],
     \* a vertex shader with a malformed binary-info header
     [BaseRegs EXCEPT !.programs[VertexIndex] = Pgm(1, FALSE, HashVsB, 3)],
     \* passes that need no draw
     [BaseRegs EXCEPT !.color_control_mode = "EliminateFastClear"]
    }

\* The register snapshots of the dispatches of a session: those of a draw, with
\* other compute program registers.
ComputeRegStates ==
    {
     [BaseRegs EXCEPT !.cs_program = CsPgm(HashCsC, 64)],
     [BaseRegs EXCEPT !.cs_program = CsPgm(HashPsA, 0)],
     [BaseRegs EXCEPT !.cs_program = CsPgm(HashPsD, 0)]
    }

\* The snapshots a draw may read.
RegStates == GraphicsRegStates \cup ComputeRegStates

\* Every combination of the depth and stencil enable bits with valid and
\* invalid depth and stencil formats.
DepthRegStates ==
    {[BaseRegs EXCEPT !.depth_control.depth_enable = d,
                      !.depth_control.stencil_enable = e,
                      !.z_format = z,
                      !.stencil_format = f] :
        d \in BOOLEAN, e \in BOOLEAN,
        z \in {"Invalid", "Z32Float"}, f \in {"Invalid", "Stencil8"}}

\* Draws that are not carried out, and draws with stages the cache rejects.
RejectedRegStates ==
    {
     [BaseRegs EXCEPT !.primitive_type = "PatchPrimitive"],
     [BaseRegs EXCEPT !.primitive_type = "None"],
     [BaseRegs EXCEPT !.color_control_mode = "EliminateFastClear"],
     [BaseRegs EXCEPT !.color_control_mode = "FmaskDecompress"],
     \* a geometry shader next to the pixel and vertex shaders
     [BaseRegs EXCEPT !.stage_enable[2] = TRUE,
                      !.programs[2] = Pgm(1, TRUE, HashCsC, 0)],
     \* a tessellation-control shader
     [BaseRegs EXCEPT !.stage_enable[TessIndex] = TRUE,
                      !.programs[TessIndex] = Pgm(1, TRUE, HashCsC, 0)],
     \* a vertex shader with the content hash that the denylist may hold
     [BaseRegs EXCEPT !.programs[VertexIndex] = Pgm(1, TRUE, HashPsD, 3)]
    }

\* The wide set of snapshots of a draw.
WideRegStates == DepthRegStates \cup RejectedRegStates

\* The snapshots a dispatch may read.
DispatchRegStates == ComputeRegStates \cup {BaseRegs}

-----------------------------------------------------------------------------
(* Collaborators outside the cache: the stage enumeration, the format      *)
(* tables, the specialization descriptor, the translator.                  *)

\* A driver that refuses nothing.
NoFaults == [modules |-> {}, pipelines |-> {}]

\* The drivers that refuse something: the creation of the n-th shader module
\* (n in modules) or of the n-th pipeline object (n in pipelines), each time
\* it is asked for.
FaultSets ==
    {[modules |-> {2}, pipelines |-> {}],
     [modules |-> {3}, pipelines |-> {}],
     [modules |-> {}, pipelines |-> {1}],
     [modules |-> {}, pipelines |-> {2}]}

\* Native driver, create-shader-module(binary) -> handle or failure: the
\* module after the nmod created so far is refused, and CompileModule is left
\* by an exception.
ModuleCreationFails(nmod) == (nmod + 1) \in driver_faults.modules

\* Native driver, create-pipeline(key, modules) -> handle or failure: the
\* pipeline after the npipe created so far is refused, and pool.Create is left
\* by an exception.
PipelineCreationFails(npipe) == (npipe + 1) \in driver_faults.pipelines

\* Shader::StageFromIndex
StageFromIndex(i) ==
    <<"Fragment", "Vertex", "Geometry", "TessControl", "TessEval">>[i + 1]

\* instance.IsDepthClipControlSupported()
DepthClipControlSupported == FALSE

\* LiverpoolToVK::SurfaceFormat(data format, number format)
SurfaceFormat(format) == format

\* LiverpoolToVK::AdjustColorBufferFormat(base_format, comp_swap, false): the
\* alternate component order turns an RGBA8 format into its BGRA8 twin.
AdjustColorBufferFormat(base_format, comp_swap) ==
    IF comp_swap = "Alternate" /\ base_format = "R8G8B8A8Unorm" THEN "B8G8R8A8Unorm"
    ELSE IF comp_swap = "Alternate" /\ base_format = "B8G8R8A8Unorm" THEN "R8G8B8A8Unorm"
    ELSE base_format

\* LiverpoolToVK::DepthFormat(z_format, stencil_format)
DepthFormat(z_format, stencil_format) ==
    CASE z_format = "Z32Float" /\ stencil_format = "Stencil8" -> "eD32SfloatS8Uint"
      [] z_format = "Z32Float" /\ stencil_format = "Invalid" -> "eD32Sfloat"
      [] z_format = "Z16" /\ stencil_format = "Stencil8" -> "eD16UnormS8Uint"
      [] z_format = "Z16" /\ stencil_format = "Invalid" -> "eD16Unorm"
      [] z_format = "Invalid" /\ stencil_format = "Stencil8" -> "eD32SfloatS8Uint"
      [] OTHER -> Undefined

\* Shader::StageSpecialization(info, runtime_info, start_binding): compared
\* field by field.
StageSpecialization(info, runtime_info, start_binding) ==
    [pgm_hash |-> info.pgm_hash, runtime_info |-> runtime_info,
     start_binding |-> start_binding]

\* Shader::Info of a program after Shader::TranslateProgram filled it in.
TranslatedInfo(stage, params) ==
    [stage |-> stage, pgm_hash |-> params.hash,
     mrt_mask |-> ShaderMrtMask(params.hash),
     num_bindings |-> ShaderNumBindings(params.hash)]

-----------------------------------------------------------------------------
(* Runtime info.                                                           *)

\* add_output of GatherVertexOutputs
AddOutput(outputs, x, y, z, w) ==
    IF x # "None" \/ y # "None" \/ z # "None" \/ w # "None"
    THEN Append(outputs, <<x, y, z, w>>)
    ELSE outputs

\* One component of VS_OUT_CCDIST0/1.
ClipCullOutput(ctl, n) ==
    IF n \in ctl.clip_dist THEN <<"ClipDist", n>>
    ELSE IF n \in ctl.cull_dist THEN <<"CullDist", n>>
    ELSE "None"

GatherVertexOutputs(ctl) ==
    LET misc ==
            AddOutput(<<>>,
                IF ctl.use_vtx_point_size THEN "PointSprite" ELSE "None",
                IF ctl.use_vtx_edge_flag THEN "EdgeFlag"
                ELSE (IF ctl.use_vtx_gs_cut_flag THEN "GsCutFlag" ELSE "None"),
                IF ctl.use_vtx_kill_flag THEN "KillFlag"
                ELSE (IF ctl.use_vtx_render_target_idx THEN "GsMrtIndex" ELSE "None"),
                IF ctl.use_vtx_viewport_idx THEN "GsVpIndex" ELSE "None")
        ccdist0 ==
            AddOutput(misc, ClipCullOutput(ctl, 0), ClipCullOutput(ctl, 1),
                      ClipCullOutput(ctl, 2), ClipCullOutput(ctl, 3))
    IN  AddOutput(ccdist0, ClipCullOutput(ctl, 4), ClipCullOutput(ctl, 5),
                  ClipCullOutput(ctl, 6), ClipCullOutput(ctl, 7))

\* Shader::RuntimeInfo{stage}
EmptyRuntimeInfo(stage) ==
    [stage |-> stage, num_user_data |-> 0, num_input_vgprs |-> 0,
     num_allocated_vgprs |-> 0,
     vs_info |-> [outputs |-> <<>>, emulate_depth_negative_one_to_one |-> FALSE],
     fs_info |-> [mrt_swizzles |-> [cb \in Slots |-> "Standard"], inputs |-> <<>>],
     cs_info |-> [workgroup_size |-> <<0, 0, 0>>,
                  tgid_enable |-> <<FALSE, FALSE, FALSE>>,
                  shared_memory_size |-> 0]]

\* A compute runtime info that leaves the shared-memory size out.
SharedMemSizeIgnored(cs_pgm) == 0

\* cs_pgm.SharedMemSize()
SharedMemSize(cs_pgm) == cs_pgm.shared_mem_size

\* PipelineCache::BuildRuntimeInfo; key is graphics_key as built so far.
BuildRuntimeInfo(stage, r, key) ==
    LET info == EmptyRuntimeInfo(stage)
        vs == r.programs[VertexIndex]
        ps == r.programs[FragmentIndex]
        cs == r.cs_program
    IN  CASE stage = "Vertex" ->
                [info EXCEPT
                    !.num_user_data = vs.settings.num_user_regs,
                    !.num_input_vgprs = vs.settings.vgpr_comp_cnt,
                    !.num_allocated_vgprs = vs.settings.num_vgprs * 4,
                    !.vs_info.outputs = GatherVertexOutputs(r.vs_output_control),
                    !.vs_info.emulate_depth_negative_one_to_one =
                        ~DepthClipControlSupported /\ r.clip_space = "MinusWToW"]
          [] stage = "Fragment" ->
                [info EXCEPT
                    !.num_user_data = ps.settings.num_user_regs,
                    !.num_allocated_vgprs = ps.settings.num_vgprs * 4,
                    !.fs_info.mrt_swizzles = key.mrt_swizzles,
                    !.fs_info.inputs =
                        [n \in 1..r.num_interp |->
                            [param_index |-> r.ps_inputs[n].input_offset,
                             is_default |-> r.ps_inputs[n].use_default,
                             is_flat |-> r.ps_inputs[n].flat_shade,
                             default_value |-> r.ps_inputs[n].default_value]]]
          [] stage = "Compute" ->
                [info EXCEPT
                    !.num_user_data = cs.settings.num_user_regs,
                    !.num_allocated_vgprs = cs.settings.num_vgprs * 4,
                    !.cs_info.workgroup_size = cs.num_thread,
                    !.cs_info.tgid_enable = cs.tgid_enable,
                    !.cs_info.shared_memory_size = SharedMemSize(cs)]
          [] OTHER -> info

-----------------------------------------------------------------------------
(* The shader program cache.                                               *)

\* The value try_emplace(params.hash) gives a new entry: a null Program*.
NullProgram == <<>>

IsNullProgram(program) == DOMAIN program = {}

\* GetProgram left by an exception of CompileModule (outcome "threw") or by the
\* read of a null Program* (outcome "crashed"): nothing is returned; pc is the
\* program cache as the call leaves it.
NotReturned(outcome, stage, params, binding, pc, nmod, spec, new_program) ==
    [info |-> NullInfo, module |-> Null, hash |-> Zero64, binding |-> binding,
     program_cache |-> pc, num_modules |-> nmod,
     pgm_hash |-> params.hash, stage |-> stage, spec |-> spec,
     perm_idx |-> 0, start_binding |-> binding,
     new_program |-> new_program, compiled |-> FALSE, outcome |-> outcome]

\* A denylist check that lets every shader through.
ShouldSkipShaderNever(shader_hash) == FALSE

\* ShouldSkipShader: std::ranges::contains(skip_hashes, shader_hash)
ShouldSkipShader(shader_hash) == shader_hash \in skip_hashes

\* PipelineCache::CompileModule: translation, SPIR-V emission (which advances
\* the binding cursor by the resources of the shader), module creation.
CompileModule(hash, binding, nmod) ==
    [module |-> nmod + 1, binding |-> binding + ShaderNumBindings(hash),
     threw |-> ModuleCreationFails(nmod)]

\* A first permutation that records the binding cursor as the compilation left it.
FirstPermutationBindingAfter(start_binding, binding) == binding

\* The binding value of the first permutation's specialization: start_binding,
\* saved before CompileModule advanced binding.
FirstPermutationBinding(start_binding, binding) == start_binding

\* A search that never finds a permutation.
FindPermutationNever(perms, spec) == 0

\* A search that looks at the first permutation only.
FindPermutationFirstOnly(perms, spec) ==
    IF Len(perms) > 0 /\ perms[1].spec = spec THEN 1 ELSE 0

\* std::ranges::find(program->modules, spec, &Program::Module::spec): the
\* position (from 1) of the first permutation with that specialization, 0 for
\* end().
FindPermutation(perms, spec) ==
    LET found == {k \in 1..Len(perms) : perms[k].spec = spec}
    IN  IF found = {} THEN 0
        ELSE CHOOSE k \in found : \A m \in found : k <= m

\* A permutation index left at modules.size() when a permutation was found.
MatchedPermIdxStale(perms, it) == Len(perms)

\* perm_idx = std::distance(program->modules.begin(), it)
MatchedPermIdx(perms, it) == it - 1

\* GetProgram, a program seen for the first time: program_pool.Create, the
\* first permutation compiled at the current binding (cm is CompileModule's
\* result), it_pgm.value() = program.
NewProgram(stage, params, binding, pc, runtime_info, info, cm) ==
    IF cm.threw
    THEN NotReturned("threw", stage, params, binding,
                     (params.hash :> NullProgram) @@ pc, cm.module - 1,
                     StageSpecialization(info, runtime_info, binding), TRUE)
    ELSE
    [info |-> info, module |-> cm.module,
     hash |-> DedupHash(params.hash, 0),
     binding |-> cm.binding,
     program_cache |->
        (params.hash :>
            [info |-> info,
             modules |-> <<[module |-> cm.module,
                            spec |-> StageSpecialization(info, runtime_info,
                                        FirstPermutationBinding(binding, cm.binding))]>>])
        @@ pc,
     num_modules |-> cm.module,
     pgm_hash |-> params.hash, stage |-> stage,
     spec |-> StageSpecialization(info, runtime_info, binding),
     perm_idx |-> 0, start_binding |-> binding,
     new_program |-> TRUE, compiled |-> TRUE, outcome |-> "returned"]

\* A new permutation that takes the place of the program's permutations.
NewPermutationReplaces(stage, params, binding, pc, program, spec, cm) ==
    IF cm.threw
    THEN NotReturned("threw", stage, params, binding, pc, cm.module - 1, spec, FALSE)
    ELSE
    [info |-> program.info, module |-> cm.module,
     hash |-> DedupHash(params.hash, Len(program.modules)),
     binding |-> cm.binding,
     program_cache |->
        [pc EXCEPT ![params.hash].modules = <<[module |-> cm.module, spec |-> spec]>>],
     num_modules |-> cm.module,
     pgm_hash |-> params.hash, stage |-> stage, spec |-> spec,
     perm_idx |-> Len(program.modules), start_binding |-> binding,
     new_program |-> FALSE, compiled |-> TRUE, outcome |-> "returned"]

\* GetProgram, no permutation of the program has the specialization: a new
\* permutation is compiled and appended; perm_idx is modules.size() before.
NewPermutation(stage, params, binding, pc, program, spec, cm) ==
    IF cm.threw
    THEN NotReturned("threw", stage, params, binding, pc, cm.module - 1, spec, FALSE)
    ELSE
    [info |-> program.info, module |-> cm.module,
     hash |-> DedupHash(params.hash, Len(program.modules)),
     binding |-> cm.binding,
     program_cache |->
        [pc EXCEPT ![params.hash].modules =
            Append(@, [module |-> cm.module, spec |-> spec])],
     num_modules |-> cm.module,
     pgm_hash |-> params.hash, stage |-> stage, spec |-> spec,
     perm_idx |-> Len(program.modules), start_binding |-> binding,
     new_program |-> FALSE, compiled |-> TRUE, outcome |-> "returned"]

\* A reuse that leaves the binding cursor where it was.
ReusedPermutationNoAdvance(stage, params, binding, pc, nmod, program, spec, it) ==
    [info |-> program.info, module |-> program.modules[it].module,
     hash |-> DedupHash(params.hash, MatchedPermIdx(program.modules, it)),
     binding |-> binding,
     program_cache |-> pc,
     num_modules |-> nmod,
     pgm_hash |-> params.hash, stage |-> stage, spec |-> spec,
     perm_idx |-> MatchedPermIdx(program.modules, it), start_binding |-> binding,
     new_program |-> FALSE, compiled |-> FALSE, outcome |-> "returned"]

\* GetProgram, permutation it (from 1) has the specialization: its module is
\* reused and binding advances by the program's number of bindings.
ReusedPermutation(stage, params, binding, pc, nmod, program, spec, it) ==
    [info |-> program.info, module |-> program.modules[it].module,
     hash |-> DedupHash(params.hash, MatchedPermIdx(program.modules, it)),
     binding |-> binding + program.info.num_bindings,
     program_cache |-> pc,
     num_modules |-> nmod,
     pgm_hash |-> params.hash, stage |-> stage, spec |-> spec,
     perm_idx |-> MatchedPermIdx(program.modules, it), start_binding |-> binding,
     new_program |-> FALSE, compiled |-> FALSE, outcome |-> "returned"]

\* GetProgram on a program that is in the cache.
KnownProgram(stage, params, binding, pc, nmod, program, spec) ==
    IF FindPermutation(program.modules, spec) = 0
    THEN NewPermutation(stage, params, binding, pc, program, spec,
                        CompileModule(params.hash, binding, nmod))
    ELSE ReusedPermutation(stage, params, binding, pc, nmod, program, spec,
                           FindPermutation(program.modules, spec))

\* GetProgram once the runtime info is built.
GetProgramWith(stage, params, binding, pc, nmod, runtime_info) ==
    IF params.hash \notin DOMAIN pc
    THEN NewProgram(stage, params, binding, pc, runtime_info,
                    TranslatedInfo(stage, params),
                    CompileModule(params.hash, binding, nmod))
    ELSE IF IsNullProgram(pc[params.hash])
    THEN NotReturned("crashed", stage, params, binding, pc, nmod, NullInfo, FALSE)
    ELSE KnownProgram(stage, params, binding, pc, nmod, pc[params.hash],
                      StageSpecialization(pc[params.hash].info, runtime_info, binding))

\* PipelineCache::GetProgram.  r is the register snapshot, key is graphics_key
\* as built so far, pc is program_cache, nmod the number of modules created so
\* far.  The result holds the returned tuple (info, module, hash), the binding
\* cursor and the two caches as the call leaves them, and what the call did.
\* A hash that try_emplace finds mapped to a null Program* (its first
\* compilation threw) makes the call read through the null pointer.
GetProgram(stage, params, binding, r, key, pc, nmod) ==
    GetProgramWith(stage, params, binding, pc, nmod, BuildRuntimeInfo(stage, r, key))

\* What history keeps of a GetProgram call.
ProgramCall(gp) ==
    [pgm_hash |-> gp.pgm_hash, stage |-> gp.stage, spec |-> gp.spec,
     perm_idx |-> gp.perm_idx, hash |-> gp.hash, module |-> gp.module,
     start_binding |-> gp.start_binding, binding |-> gp.binding,
     new_program |-> gp.new_program, compiled |-> gp.compiled]

-----------------------------------------------------------------------------
(* The graphics key.                                                       *)

\* graphics_key after std::memset(&graphics_key, 0, sizeof(GraphicsPipelineKey))
ZeroKey ==
    [depth_stencil |-> [depth_enable |-> FALSE, depth_write_enable |-> FALSE,
                        stencil_enable |-> FALSE],
     depth_bias_enable |-> FALSE,
     depth_format |-> Undefined,
     stencil_format |-> Undefined,
     stencil |-> 0,
     prim_type |-> "None",
     enable_primitive_restart |-> 0,
     primitive_restart_index |-> 0,
     polygon_mode |-> "Fill",
     cull_mode |-> "None",
     clip_space |-> "MinusWToW",
     front_face |-> "CCW",
     num_samples |-> 0,
     color_formats |-> [cb \in Slots |-> Undefined],
     blend_controls |-> [cb \in Slots |-> NoBlend],
     write_masks |-> [cb \in Slots |-> 0],
     mrt_swizzles |-> [cb \in Slots |-> "Standard"],
     cb_shader_mask |-> [cb \in Slots |-> 0],
     mrt_mask |-> {},
     stage_hashes |-> [i \in Stages |-> Zero64]]

\* An enable bit taken from the register as it is.
EnableUnvalidated(enable, format) == enable

\* if (enable) enable.Assign(format != vk::Format::eUndefined), for the depth
\* and for the stencil enable bit of key.depth_stencil.
EnableValidated(enable, format) ==
    IF enable THEN format # Undefined ELSE enable

\* The depth, stencil and raster fields of the key.
DepthAndRaster(key, r) ==
    LET db_z == r.z_format
        db_s == r.stencil_format
        ds_format == DepthFormat(db_z, db_s)
        depth_format == IF db_z # "Invalid" THEN ds_format ELSE Undefined
        stencil_format == IF db_s # "Invalid" THEN depth_format ELSE Undefined
        depth_enable == EnableValidated(r.depth_control.depth_enable, depth_format)
        stencil_enable ==
            EnableValidated(r.depth_control.stencil_enable, stencil_format)
    IN  [key EXCEPT
            !.depth_stencil =
                [depth_enable |-> depth_enable,
                 depth_write_enable |-> r.depth_control.depth_write_enable
                                        /\ ~r.depth_clear_enable,
                 stencil_enable |-> stencil_enable],
            !.depth_bias_enable = r.polygon_control.needs_bias,
            !.depth_format = depth_format,
            !.stencil = r.stencil_control,
            !.stencil_format = stencil_format,
            !.prim_type = r.primitive_type,
            !.enable_primitive_restart = r.enable_primitive_restart % 2,
            !.primitive_restart_index = r.primitive_restart_index,
            !.polygon_mode = r.polygon_control.poly_mode,
            !.cull_mode = r.polygon_control.cull_mode,
            !.clip_space = r.clip_space,
            !.front_face = r.polygon_control.front_face,
            !.num_samples = r.num_samples]

\* skip_cb_binding
SkipCbBinding(r) == r.color_control_mode = "Disable"

\* The first pass over the color buffers, from slot cb on: formats and
\* swizzles of the bound, unmasked buffers, compacted.
RECURSIVE FirstPass(_, _, _, _)
FirstPass(cb, remapped_cb, key, r) ==
    IF cb >= NumColorBuffers THEN key
    ELSE LET col_buf == r.color_buffers[cb]
         IN  IF SkipCbBinding(r) \/ ~col_buf.bound \/ r.color_target_mask[cb] = 0
             THEN FirstPass(cb + 1, remapped_cb, key, r)
             ELSE LET base_format == SurfaceFormat(col_buf.format)
                      adjusted == AdjustColorBufferFormat(base_format, col_buf.comp_swap)
                  IN  FirstPass(cb + 1, remapped_cb + 1,
                        [key EXCEPT
                            !.color_formats[remapped_cb] = adjusted,
                            !.mrt_swizzles[remapped_cb] =
                                IF base_format = adjusted THEN col_buf.comp_swap ELSE @],
                        r)

\* The second pass over the color buffers, from slot cb on.
RECURSIVE SecondPass(_, _, _, _)
SecondPass(cb, remapped_cb, key, r) ==
    IF cb >= NumColorBuffers THEN key
    ELSE LET col_buf == r.color_buffers[cb]
         IN  IF SkipCbBinding(r) \/ ~col_buf.bound \/ r.color_target_mask[cb] = 0
                \/ cb \notin key.mrt_mask
             THEN SecondPass(cb + 1, remapped_cb,
                    [key EXCEPT !.color_formats[cb] = Undefined,
                                !.mrt_swizzles[cb] = "Standard"],
                    r)
             ELSE SecondPass(cb + 1, remapped_cb + 1,
                    [key EXCEPT
                        !.blend_controls[remapped_cb] =
                            [r.blend_control[cb] EXCEPT
                                !.enable = @ /\ ~col_buf.blend_bypass],
                        !.write_masks[remapped_cb] = r.color_target_mask[cb],
                        !.cb_shader_mask[remapped_cb] = r.color_shader_mask[cb]],
                    r)

\* A stage that contributes nothing: key.stage_hashes[i] = 0; infos[i] = nullptr.
StageSkipped(acc, i) ==
    [acc EXCEPT !.key.stage_hashes[i] = Zero64, !.infos[i] = NullInfo]

\* std::tie(infos[i], modules[i], key.stage_hashes[i]) = GetProgram(...), gp
\* being what GetProgram returned and left behind.  A GetProgram that did not
\* return leaves the refresh at once, with the members as built so far.
StageCompiled(acc, i, gp) ==
    IF gp.outcome # "returned"
    THEN [acc EXCEPT !.failed = TRUE, !.outcome = gp.outcome,
                     !.program_cache = gp.program_cache]
    ELSE
    [acc EXCEPT
        !.infos[i] = <<gp.info>>,
        !.modules[i] = gp.module,
        !.key.stage_hashes[i] = gp.hash,
        !.binding = gp.binding,
        !.program_cache = gp.program_cache,
        !.num_modules = gp.num_modules,
        !.programs = Append(@, ProgramCall(gp))]

\* A check that lets every stage through.
StageSupportedAny(stage) == TRUE

\* !(stage != Shader::Stage::Vertex && stage != Shader::Stage::Fragment)
StageSupported(stage) == stage = "Vertex" \/ stage = "Fragment"

\* The stage loop of RefreshGraphicsKey from stage i on.  acc holds the key,
\* infos, modules, the caches and the binding cursor as built so far; failed
\* is set by a return false, which leaves everything else as it is then.
RECURSIVE StageLoop(_, _, _)
StageLoop(i, acc, r) ==
    IF i >= MaxShaderStages \/ acc.outcome # "returned" THEN acc
    ELSE IF ~r.stage_enable[i] THEN StageLoop(i + 1, StageSkipped(acc, i), r)
    ELSE LET pgm == r.programs[i]
             stage == StageFromIndex(i)
         IN  IF pgm.address = 0 THEN StageLoop(i + 1, StageSkipped(acc, i), r)
             ELSE IF ~pgm.valid THEN StageLoop(i + 1, StageSkipped(acc, i), r)
             ELSE IF ShouldSkipShader(pgm.hash) THEN [acc EXCEPT !.failed = TRUE]
             ELSE IF ~StageSupported(stage)
                  THEN [acc EXCEPT !.failed = TRUE]
             ELSE IF r.stage_enable[TessIndex] /\ r.programs[TessIndex].address # 0
                  THEN [acc EXCEPT !.failed = TRUE]
             ELSE StageLoop(i + 1,
                    StageCompiled(acc, i,
                        GetProgram(stage, [hash |-> pgm.hash], acc.binding, r,
                                   acc.key, acc.program_cache, acc.num_modules)),
                    r)

\* What a refresh hands back: the returned bool, the key, infos and modules as
\* the refresh leaves them, the caches, and the GetProgram calls it made.
Refreshed(ok, key, acc) ==
    [ok |-> ok, key |-> key, infos |-> acc.infos, modules |-> acc.modules,
     program_cache |-> acc.program_cache, num_modules |-> acc.num_modules,
     programs |-> acc.programs, outcome |-> acc.outcome]

\* key.mrt_mask = fs_info ? fs_info->mrt_mask : 0u
WithMrtMask(key, fs_info) ==
    [key EXCEPT !.mrt_mask = IF fs_info # NullInfo THEN fs_info[1].mrt_mask ELSE {}]

\* RefreshGraphicsKey after the stage loop: a return false of the loop leaves
\* the key as it is; otherwise the mrt mask and the second pass.
AfterStages(staged, r) ==
    IF staged.failed
    THEN Refreshed(FALSE, staged.key, staged)
    ELSE Refreshed(TRUE,
            SecondPass(0, 0, WithMrtMask(staged.key, staged.infos[FragmentIndex]), r),
            staged)

\* PipelineCache::RefreshGraphicsKey on snapshot r, from the caches pc, nmod
\* and the members infos0, modules0.
RefreshGraphicsKey(r, pc, nmod, infos0, modules0) ==
    AfterStages(
        StageLoop(0,
            [failed |-> FALSE,
             key |-> FirstPass(0, 0, DepthAndRaster(ZeroKey, r), r),
             infos |-> infos0, modules |-> modules0, program_cache |-> pc,
             num_modules |-> nmod, binding |-> 0, programs |-> <<>>,
             outcome |-> "returned"],
            r),
        r)

\* std::tie(infos[0], modules[0], compute_key) = GetProgram(...)
ComputeCompiled(infos0, modules0, ckey0, gp) ==
    IF gp.outcome # "returned"
    THEN [ok |-> FALSE, key |-> ckey0, infos |-> infos0, modules |-> modules0,
          program_cache |-> gp.program_cache, num_modules |-> gp.num_modules,
          programs |-> <<>>, outcome |-> gp.outcome]
    ELSE
    [ok |-> TRUE, key |-> gp.hash,
     infos |-> [infos0 EXCEPT ![0] = <<gp.info>>],
     modules |-> [modules0 EXCEPT ![0] = gp.module],
     program_cache |-> gp.program_cache,
     num_modules |-> gp.num_modules,
     programs |-> <<ProgramCall(gp)>>, outcome |-> "returned"]

\* PipelineCache::RefreshComputeKey: key is the new compute_key; gkey is the
\* member graphics_key.
RefreshComputeKey(r, pc, nmod, infos0, modules0, ckey0, gkey) ==
    IF ShouldSkipShader(r.cs_program.hash)
    THEN [ok |-> FALSE, key |-> ckey0, infos |-> infos0, modules |-> modules0,
          program_cache |-> pc, num_modules |-> nmod, programs |-> <<>>,
          outcome |-> "returned"]
    ELSE ComputeCompiled(infos0, modules0, ckey0,
            GetProgram("Compute", [hash |-> r.cs_program.hash], 0, r, gkey, pc, nmod))

-----------------------------------------------------------------------------
(* The pipeline object cache.                                              *)

\* A lookup that takes every key for a new one.
IsNewAlways(map, key) == TRUE

\* is_new of try_emplace(key): the key was not in the map.
IsNew(map, key) == key \notin DOMAIN map

\* What history keeps of a call: the registers it read, whether it refreshed
\* the key and what the refresh returned, the key member after the call, the
\* returned pipeline, whether the pool created it, the GetProgram calls made,
\* and how the call ended: "returned", "threw" (an exception of the driver
\* left it) or "crashed" (it read through a null pointer).
Call(kind, r, refreshed, ok, key, result, created, programs, outcome) ==
    [kind |-> kind, regs |-> r, refreshed |-> refreshed, ok |-> ok, key |-> key,
     result |-> result, created |-> created, programs |-> programs,
     outcome |-> outcome]

\* GetGraphicsPipeline returning nullptr before any key refresh.
ReturnNull(r) ==
    /\ regs' = r
    /\ history' = Append(history,
            Call("graphics", r, FALSE, FALSE, graphics_key, Null, FALSE, <<>>,
                 "returned"))
    /\ UNCHANGED <<skip_hashes, program_cache, num_modules, graphics_pipelines,
                   compute_pipelines, num_pipelines, graphics_key, compute_key,
                   infos, modules, driver_faults>>

\* The pipeline a call returns: null after a failed refresh, the one the pool
\* creates for a new key, the one the map holds otherwise.
PipelineFor(map, rk, is_new) ==
    IF ~rk.ok THEN Null
    ELSE IF is_new
         THEN IF PipelineCreationFails(num_pipelines) THEN Null
              ELSE num_pipelines + 1
    ELSE map[rk.key]

\* try_emplace(key) and, for a new key, it.value() = pool.Create(...): the
\* entry try_emplace made keeps its null value when Create throws.
Emplaced(map, rk, is_new) ==
    IF rk.ok /\ is_new
    THEN (rk.key :> PipelineFor(map, rk, is_new)) @@ map
    ELSE map

\* The pool created a pipeline object in the call.
Created(rk, is_new) ==
    rk.ok /\ is_new /\ ~PipelineCreationFails(num_pipelines)

\* How a call ends after the key refresh rk.
Outcome(rk, is_new) ==
    IF rk.outcome # "returned" THEN rk.outcome
    ELSE IF rk.ok /\ is_new /\ PipelineCreationFails(num_pipelines) THEN "threw"
    ELSE "returned"

\* GetGraphicsPipeline after the key refresh rk.
GraphicsLookup(r, rk, is_new) ==
    /\ regs' = r
    /\ graphics_key' = rk.key
    /\ infos' = rk.infos
    /\ modules' = rk.modules
    /\ program_cache' = rk.program_cache
    /\ num_modules' = rk.num_modules
    /\ graphics_pipelines' = Emplaced(graphics_pipelines, rk, is_new)
    /\ num_pipelines' = IF Created(rk, is_new) THEN num_pipelines + 1
                        ELSE num_pipelines
    /\ history' = Append(history,
            Call("graphics", r, TRUE, rk.ok, rk.key,
                 PipelineFor(graphics_pipelines, rk, is_new),
                 Created(rk, is_new), rk.programs, Outcome(rk, is_new)))
    /\ UNCHANGED <<skip_hashes, compute_pipelines, compute_key, driver_faults>>

\* GetGraphicsPipeline once the key is refreshed.
GraphicsRefreshed(r, rk) ==
    GraphicsLookup(r, rk, IsNew(graphics_pipelines, rk.key))

\* A GetGraphicsPipeline that skips the patch topology only.
GetGraphicsPipelinePatchOnly(r) ==
    IF r.primitive_type = "PatchPrimitive" THEN ReturnNull(r)
    ELSE GraphicsRefreshed(r,
            RefreshGraphicsKey(r, program_cache, num_modules, infos, modules))

\* PipelineCache::GetGraphicsPipeline with registers r.
GetGraphicsPipelineOn(r) ==
    IF r.primitive_type = "PatchPrimitive" THEN ReturnNull(r)
    ELSE IF r.color_control_mode = "EliminateFastClear" THEN ReturnNull(r)
    ELSE IF r.color_control_mode = "FmaskDecompress" THEN ReturnNull(r)
    ELSE IF r.primitive_type = "None" THEN ReturnNull(r)
    ELSE GraphicsRefreshed(r,
            RefreshGraphicsKey(r, program_cache, num_modules, infos, modules))

\* GetComputePipeline after the key refresh rk.
ComputeLookup(r, rk, is_new) ==
    /\ regs' = r
    /\ compute_key' = rk.key
    /\ infos' = rk.infos
    /\ modules' = rk.modules
    /\ program_cache' = rk.program_cache
    /\ num_modules' = rk.num_modules
    /\ compute_pipelines' = Emplaced(compute_pipelines, rk, is_new)
    /\ num_pipelines' = IF Created(rk, is_new) THEN num_pipelines + 1
                        ELSE num_pipelines
    /\ history' = Append(history,
            Call("compute", r, TRUE, rk.ok, rk.key,
                 PipelineFor(compute_pipelines, rk, is_new),
                 Created(rk, is_new), rk.programs, Outcome(rk, is_new)))
    /\ UNCHANGED <<skip_hashes, graphics_pipelines, graphics_key, driver_faults>>

\* GetComputePipeline once the key is refreshed.
ComputeRefreshed(r, rk) ==
    ComputeLookup(r, rk, IsNew(compute_pipelines, rk.key))

\* PipelineCache::GetComputePipeline with registers r.
GetComputePipelineOn(r) ==
    ComputeRefreshed(r,
        RefreshComputeKey(r, program_cache, num_modules, infos, modules,
                          compute_key, graphics_key))

\* The process ended in the latest call.
Crashed == Len(history) > 0 /\ history[Len(history)].outcome = "crashed"

\* A draw: the command processor has set the registers to r.
GetGraphicsPipeline ==
    /\ Len(history) < MaxCalls
    /\ ~Crashed
    /\ \E r \in RegStates : GetGraphicsPipelineOn(r)

\* A dispatch: the command processor has set the registers to r.
GetComputePipeline ==
    /\ Len(history) < MaxCalls
    /\ ~Crashed
    /\ \E r \in DispatchRegStates : GetComputePipelineOn(r)

\* A draw with a snapshot of the wide set.
GetGraphicsPipelineWide ==
    /\ Len(history) < MaxWideCalls
    /\ ~Crashed
    /\ \E r \in WideRegStates : GetGraphicsPipelineOn(r)

\* A dispatch between such draws.
GetComputePipelineWide ==
    /\ Len(history) < MaxWideCalls
    /\ ~Crashed
    /\ \E r \in DispatchRegStates : GetComputePipelineOn(r)

\* PipelineCache::PipelineCache: empty caches.
Init ==
    /\ regs = PowerOnRegs
    /\ skip_hashes \in SkipLists
    /\ program_cache = <<>>
    /\ num_modules = 0
    /\ graphics_pipelines = <<>>
    /\ compute_pipelines = <<>>
    /\ num_pipelines = 0
    /\ graphics_key = ZeroKey
    /\ compute_key = Zero64
    /\ infos = [i \in Stages |-> NullInfo]
    /\ modules = [i \in Stages |-> Null]
    /\ driver_faults = NoFaults
    /\ history = <<>>

Next == GetGraphicsPipeline \/ GetComputePipeline

Spec == Init /\ [][Next]_vars

\* A session on a driver that refuses some creation, with an empty denylist.
InitFaulty ==
    /\ regs = PowerOnRegs
    /\ skip_hashes = {}
    /\ program_cache = <<>>
    /\ num_modules = 0
    /\ graphics_pipelines = <<>>
    /\ compute_pipelines = <<>>
    /\ num_pipelines = 0
    /\ graphics_key = ZeroKey
    /\ compute_key = Zero64
    /\ infos = [i \in Stages |-> NullInfo]
    /\ modules = [i \in Stages |-> Null]
    /\ driver_faults \in FaultSets
    /\ history = <<>>

SpecFaulty == InitFaulty /\ [][Next]_vars

NextWide == GetGraphicsPipelineWide \/ GetComputePipelineWide

\* Short sessions over the wide set of register snapshots.
SpecWide == Init /\ [][NextWide]_vars

-----------------------------------------------------------------------------
(* Properties.  A call is an index of history; a GetProgram call is a pair *)
(* <<n, m>>: the m-th GetProgram call of call n.                           *)

Last(seq) == seq[Len(seq)]

GraphicsCalls == {n \in DOMAIN history : history[n].kind = "graphics"}

ComputeCalls == {n \in DOMAIN history : history[n].kind = "compute"}

ProgramCalls ==
    {nm \in (DOMAIN history) \X (1..MaxShaderStages) :
        nm[2] \in DOMAIN history[nm[1]].programs}

ProgramCallAt(nm) == history[nm[1]].programs[nm[2]]

\* The registers did not change from call i to call j.
RegsUnchanged(i, j) == \A n \in i..j : history[n].regs = history[i].regs

\* The calls i < j of the same kind that both refreshed their key with success.
SuccessfulPairs ==
    {ij \in (DOMAIN history) \X (DOMAIN history) :
        /\ ij[1] < ij[2]
        /\ history[ij[1]].kind = history[ij[2]].kind
        /\ history[ij[1]].ok
        /\ history[ij[2]].ok}

\* C1: each pipeline map holds one pipeline object per key: the pools have
\* created exactly one object per key of the two maps, no object is mapped by
\* two keys, a call creates an object only when no earlier call of its kind
\* refreshed to the same key, and two calls whose refreshed keys are equal
\* return the same object.
C1_OnePipelinePerKey ==
    /\ \A k1, k2 \in DOMAIN graphics_pipelines :
            graphics_pipelines[k1] = graphics_pipelines[k2] => k1 = k2
    /\ \A k1, k2 \in DOMAIN compute_pipelines :
            compute_pipelines[k1] = compute_pipelines[k2] => k1 = k2
    /\ \A g \in DOMAIN graphics_pipelines : \A c \in DOMAIN compute_pipelines :
            /\ graphics_pipelines[g] # Null
            /\ compute_pipelines[c] # Null
            /\ graphics_pipelines[g] # compute_pipelines[c]
    /\ num_pipelines = Cardinality(DOMAIN graphics_pipelines)
                       + Cardinality(DOMAIN compute_pipelines)
    /\ \A ij \in SuccessfulPairs :
            history[ij[1]].key = history[ij[2]].key
            => /\ history[ij[1]].result = history[ij[2]].result
               /\ ~history[ij[2]].created
    /\ \A n \in DOMAIN history :
            history[n].ok
            => /\ history[n].result # Null
               /\ history[n].created
                  <=> \A ij \in SuccessfulPairs :
                        ij[2] = n => history[ij[1]].key # history[n].key

\* Two calls of one kind refreshed to the same key, and the second returned the
\* object the first created.
C1_Witness ==
    \E ij \in SuccessfulPairs :
        /\ history[ij[1]].key = history[ij[2]].key
        /\ history[ij[1]].created
        /\ history[ij[2]].result = history[ij[1]].result
        /\ history[ij[2]].result # Null

\* C2: a GetGraphicsPipeline call that directly follows a GetGraphicsPipeline
\* call and reads the same registers returns the same pointer, compiles
\* nothing, and leaves the program cache (programs and permutations) and the
\* pipeline maps as they are.
C2_Idempotent ==
    [][ ( /\ Len(history) >= 1
          /\ Len(history') = Len(history) + 1
          /\ Last(history).kind = "graphics"
          /\ Last(history').kind = "graphics"
          /\ Last(history').regs = Last(history).regs )
        => ( /\ Last(history').result = Last(history).result
             /\ \A m \in DOMAIN Last(history').programs :
                    ~Last(history').programs[m].compiled
             /\ num_modules' = num_modules
             /\ program_cache' = program_cache
             /\ graphics_pipelines' = graphics_pipelines
             /\ compute_pipelines' = compute_pipelines
             /\ num_pipelines' = num_pipelines ) ]_vars

\* A draw compiled its shaders and created a pipeline, and the draw right after
\* it, with the same registers, got that pipeline from programs that were all
\* in the cache.
C2_Witness ==
    \E n \in GraphicsCalls :
        /\ n + 1 \in GraphicsCalls
        /\ history[n + 1].regs = history[n].regs
        /\ history[n].created
        /\ \E m \in DOMAIN history[n].programs : history[n].programs[m].compiled
        /\ history[n + 1].result = history[n].result
        /\ Len(history[n + 1].programs) = Len(history[n].programs)

\* The color buffer of slot cb is bound, is not masked off by the color target
\* mask and is referenced by the render-target mask of the fragment stage.
Survives(r, mrt_mask, cb) ==
    /\ ~SkipCbBinding(r)
    /\ r.color_buffers[cb].bound
    /\ r.color_target_mask[cb] # 0
    /\ cb \in mrt_mask

\* The surviving slots among 0..(n - 1), in slot order.
RECURSIVE SurvivingSlots(_, _, _)
SurvivingSlots(r, mrt_mask, n) ==
    IF n = 0 THEN <<>>
    ELSE IF Survives(r, mrt_mask, n - 1)
         THEN Append(SurvivingSlots(r, mrt_mask, n - 1), n - 1)
         ELSE SurvivingSlots(r, mrt_mask, n - 1)

\* Entry j of the three per-target arrays of key holds the data of slot cb.
DescribesSlot(key, j, r, cb) ==
    /\ key.color_formats[j] =
            AdjustColorBufferFormat(SurfaceFormat(r.color_buffers[cb].format),
                                    r.color_buffers[cb].comp_swap)
    /\ key.write_masks[j] = r.color_target_mask[cb]
    /\ key.blend_controls[j] =
            [r.blend_control[cb] EXCEPT
                !.enable = @ /\ ~r.color_buffers[cb].blend_bypass]

\* The arrays of key hold the surviving slots left-packed in slot order, and
\* the sentinel behind them.
LeftPacked(key, r, surviving) ==
    \A j \in Slots :
        IF j < Len(surviving)
        THEN DescribesSlot(key, j, r, surviving[j + 1])
        ELSE /\ key.color_formats[j] = Undefined
             /\ key.write_masks[j] = 0
             /\ key.blend_controls[j] = NoBlend

\* C3: after a successful RefreshGraphicsKey the color_formats, write_masks
\* and blend_controls of the key hold the data of the surviving color buffers
\* left-packed in slot order, entry j of each array describing the same slot,
\* and the undefined/default sentinel at every index behind them.
C3_ColorTargetsLeftPacked ==
    \A n \in GraphicsCalls :
        history[n].ok
        => LeftPacked(history[n].key, history[n].regs,
                      SurvivingSlots(history[n].regs, history[n].key.mrt_mask,
                                     NumColorBuffers))

\* C4: a draw whose primitive topology is patch, or whose tessellation-control
\* stage has a program bound, gets a null pipeline, whatever the other
\* registers hold.
C4_TessellationSkipped ==
    \A n \in GraphicsCalls :
        ( \/ history[n].regs.primitive_type = "PatchPrimitive"
          \/ history[n].regs.programs[TessIndex].address # 0 )
        => history[n].result = Null

\* The shader of an enabled graphics stage, bound with a valid header, or the
\* compute program of a dispatch, has content hash h.
UsesShader(n, h) ==
    IF history[n].kind = "graphics"
    THEN \E i \in Stages :
            /\ history[n].regs.stage_enable[i]
            /\ history[n].regs.programs[i].address # 0
            /\ history[n].regs.programs[i].valid
            /\ history[n].regs.programs[i].hash = h
    ELSE history[n].regs.cs_program.hash = h

\* C5: a shader whose content hash is in the denylist never reaches the
\* translator (no GetProgram call, hence no CompileModule call, is made for
\* it, and the program cache holds no entry for it), and every draw or
\* dispatch that uses it gets a null pipeline.
C5_DenylistedNeverCompiled ==
    /\ \A h \in skip_hashes : h \notin DOMAIN program_cache
    /\ \A nm \in ProgramCalls : ProgramCallAt(nm).pgm_hash \notin skip_hashes
    /\ \A n \in DOMAIN history : \A h \in skip_hashes :
            UsesShader(n, h)
            => /\ history[n].result = Null
               /\ ~history[n].created

\* A draw and a dispatch both used a denylisted shader (and a draw that did
\* not was served).
C5_Witness ==
    /\ \E n \in GraphicsCalls : \E h \in skip_hashes : UsesShader(n, h)
    /\ \E n \in ComputeCalls : \E h \in skip_hashes : UsesShader(n, h)
    /\ \E n \in GraphicsCalls : history[n].result # Null

\* C6: of two GetProgram calls with the same content hash, those with
\* different specialization descriptors resolve to different permutation
\* entries of the one program and return different dedup hashes, those with
\* equal descriptors resolve to the same entry and return the same dedup hash;
\* the entry a call resolves to holds the call's descriptor and the module the
\* call returned; and HashCombine(h, i) # HashCombine(h, j) for i # j (read
\* from the table DedupHashes of these values).
C6_PermutationIdentity ==
    /\ \A a, b \in ProgramCalls :
            ProgramCallAt(a).pgm_hash = ProgramCallAt(b).pgm_hash
            => IF ProgramCallAt(a).spec = ProgramCallAt(b).spec
               THEN /\ ProgramCallAt(a).perm_idx = ProgramCallAt(b).perm_idx
                    /\ ProgramCallAt(a).hash = ProgramCallAt(b).hash
                    /\ ProgramCallAt(a).module = ProgramCallAt(b).module
               ELSE /\ ProgramCallAt(a).perm_idx # ProgramCallAt(b).perm_idx
                    /\ ProgramCallAt(a).hash # ProgramCallAt(b).hash
                    /\ ProgramCallAt(a).module # ProgramCallAt(b).module
    /\ \A a \in ProgramCalls :
            /\ ProgramCallAt(a).pgm_hash \in DOMAIN program_cache
            /\ ProgramCallAt(a).perm_idx
                    < Len(program_cache[ProgramCallAt(a).pgm_hash].modules)
            /\ program_cache[ProgramCallAt(a).pgm_hash]
                    .modules[ProgramCallAt(a).perm_idx + 1]
               = [module |-> ProgramCallAt(a).module, spec |-> ProgramCallAt(a).spec]
    /\ \A h \in Hashes : \A i, j \in 0..(2 * MaxCalls) :
            i # j => DedupHashes[h, i] # DedupHashes[h, j]

\* One shader was requested under two descriptors that differ in the starting
\* binding only, and again under the first of them.
C6_Witness ==
    \E a, b, c \in ProgramCalls :
        /\ ProgramCallAt(a).pgm_hash = ProgramCallAt(b).pgm_hash
        /\ ProgramCallAt(a).spec.runtime_info = ProgramCallAt(b).spec.runtime_info
        /\ ProgramCallAt(a).spec.start_binding # ProgramCallAt(b).spec.start_binding
        /\ ProgramCallAt(a).perm_idx # ProgramCallAt(b).perm_idx
        /\ c[1] > a[1]
        /\ ProgramCallAt(c).pgm_hash = ProgramCallAt(a).pgm_hash
        /\ ProgramCallAt(c).spec = ProgramCallAt(a).spec
        /\ ~ProgramCallAt(c).compiled

\* C7: a GetComputePipeline call on a compute program that is not denylisted
\* returns a pipeline, and a later GetComputePipeline call before which the
\* registers did not change returns the same pointer.
C7_ComputeEndToEnd ==
    /\ \A n \in ComputeCalls :
            history[n].regs.cs_program.hash \notin skip_hashes
            => history[n].result # Null
    /\ \A i, j \in ComputeCalls :
            (i < j /\ RegsUnchanged(i, j))
            => history[j].result = history[i].result

\* A draw, then a dispatch that compiled its program and created a pipeline,
\* then the same dispatch again.
C7_Witness ==
    /\ Len(history) >= 3
    /\ history[1].kind = "graphics"
    /\ history[1].result # Null
    /\ history[2].kind = "compute"
    /\ history[2].created
    /\ history[3].kind = "compute"
    /\ history[3].regs = history[2].regs
    /\ history[3].result = history[2].result

\* The dispatches i and j are on the same compute program and their registers
\* differ in the shared-memory size only.
DifferInSharedMemOnly(i, j) ==
    /\ history[i].regs.cs_program.hash = history[j].regs.cs_program.hash
    /\ history[i].regs.cs_program.shared_mem_size
            # history[j].regs.cs_program.shared_mem_size
    /\ [history[i].regs EXCEPT !.cs_program.shared_mem_size = 0]
            = [history[j].regs EXCEPT !.cs_program.shared_mem_size = 0]

\* C8: two dispatches on the same compute program that differ in the
\* shared-memory size only refresh to different compute keys; the program
\* cache holds one program for the hash, created by one GetProgram call; and
\* two dispatches are given the same pipeline object only if their keys are
\* equal.
C8_SharedMemoryChangesKey ==
    /\ \A i, j \in ComputeCalls :
            (history[i].ok /\ history[j].ok /\ DifferInSharedMemOnly(i, j))
            => /\ history[i].key # history[j].key
               /\ history[i].regs.cs_program.hash \in DOMAIN program_cache
               /\ Cardinality({nm \in ProgramCalls :
                        /\ ProgramCallAt(nm).new_program
                        /\ ProgramCallAt(nm).pgm_hash
                                = history[i].regs.cs_program.hash}) = 1
               /\ history[i].programs[1].pgm_hash = history[j].programs[1].pgm_hash
    /\ \A i, j \in ComputeCalls :
            (history[i].ok /\ history[j].ok
             /\ history[i].result = history[j].result)
            => history[i].key = history[j].key

\* Two dispatches on one program with different shared-memory sizes were
\* served, by two permutations of the program.
C8_Witness ==
    \E i, j \in ComputeCalls :
        /\ i < j
        /\ DifferInSharedMemOnly(i, j)
        /\ history[i].result # Null
        /\ history[j].result # Null
        /\ history[i].programs[1].perm_idx # history[j].programs[1].perm_idx

\* The fields of a snapshot that the graphics key construction consumes: all
\* but the compute program registers.
GraphicsFields(r) == [r EXCEPT !.cs_program = CsPgm(Zero64, 0)]

\* C9: two RefreshGraphicsKey runs of a session whose snapshots agree on every
\* field the key construction consumes leave bit-identical graphics keys (and
\* return the same), whatever was drawn or dispatched before and between them.
C9_KeyDeterminism ==
    \A i, j \in GraphicsCalls :
        ( /\ history[i].refreshed
          /\ history[j].refreshed
          /\ GraphicsFields(history[i].regs) = GraphicsFields(history[j].regs) )
        => /\ history[i].key = history[j].key
           /\ history[i].ok = history[j].ok

\* Two draws whose snapshots differ in the compute registers only built their
\* keys with success, the first from an empty program cache, with another call
\* between them.
C9_Witness ==
    \E i, j \in GraphicsCalls :
        /\ i + 1 < j
        /\ history[i].ok
        /\ history[j].ok
        /\ history[i].regs # history[j].regs
        /\ GraphicsFields(history[i].regs) = GraphicsFields(history[j].regs)
        /\ \E m \in DOMAIN history[i].programs : history[i].programs[m].new_program
        /\ history[i + 1].regs # history[i].regs

\* An enabled stage of the draw has a program bound whose binary-info header
\* is invalid.
HasInvalidBinaryInfo(r) ==
    \E i \in Stages :
        /\ r.stage_enable[i]
        /\ r.programs[i].address # 0
        /\ ~r.programs[i].valid

\* C10: when an enabled graphics stage with a program bound has an invalid
\* binary-info header, RefreshGraphicsKey returns failure, and
\* GetGraphicsPipeline returns null and creates no pipeline object.
C10_InvalidBinaryInfoAborts ==
    \A n \in GraphicsCalls :
        HasInvalidBinaryInfo(history[n].regs)
        => /\ ~history[n].ok
           /\ history[n].result = Null
           /\ ~history[n].created

\* C11: every key of the graphics or compute pipeline map is mapped to a fully
\* constructed, non-null pipeline object, which a call with that refreshed key
\* created: a failed refresh or a failed driver pipeline creation leaves the
\* map without the key.
C11_NoPartialPipelineCached ==
    /\ \A k \in DOMAIN graphics_pipelines :
            /\ graphics_pipelines[k] # Null
            /\ \E n \in GraphicsCalls :
                    history[n].ok /\ history[n].created /\ history[n].key = k
    /\ \A k \in DOMAIN compute_pipelines :
            /\ compute_pipelines[k] # Null
            /\ \E n \in ComputeCalls :
                    history[n].ok /\ history[n].created /\ history[n].key = k

\* C15: every content hash of the program cache maps to a non-null program
\* that owns at least one permutation, a module paired with the specialization
\* descriptor it was compiled for, also after a first compilation of the
\* program failed in the translator or the driver.
C15_ProgramsOwnPermutation ==
    \A h \in DOMAIN program_cache :
        /\ ~IsNullProgram(program_cache[h])
        /\ Len(program_cache[h].modules) >= 1
        /\ \A k \in DOMAIN program_cache[h].modules :
                /\ program_cache[h].modules[k].module # Null
                /\ program_cache[h].modules[k].spec.pgm_hash = h

\* The draw needs no pipeline: patch or no topology, or a fast-clear-eliminate
\* or FMask-decompress pass.
NeedsNoPipeline(r) ==
    \/ r.primitive_type = "PatchPrimitive"
    \/ r.primitive_type = "None"
    \/ r.color_control_mode = "EliminateFastClear"
    \/ r.color_control_mode = "FmaskDecompress"

\* C12: a GetGraphicsPipeline call whose snapshot has the patch or no
\* topology, or the fast-clear-eliminate or FMask-decompress mode, returns null
\* and leaves the program cache with every permutation list and both pipeline
\* maps unchanged: it compiles nothing and creates nothing.
C12_SkippedDrawsTouchNothing ==
    [][ ( /\ Len(history') = Len(history) + 1
          /\ Last(history').kind = "graphics"
          /\ NeedsNoPipeline(Last(history').regs) )
        => ( /\ Last(history').result = Null
             /\ Last(history').programs = <<>>
             /\ ~Last(history').created
             /\ program_cache' = program_cache
             /\ num_modules' = num_modules
             /\ graphics_pipelines' = graphics_pipelines
             /\ compute_pipelines' = compute_pipelines
             /\ num_pipelines' = num_pipelines ) ]_vars

\* A draw was served, and then a draw of each of two kinds that need no
\* pipeline, with shaders that would have compiled, got null.
C12_Witness ==
    /\ Len(history) = 2
    /\ history[1].kind = "graphics"
    /\ history[1].created
    /\ history[2].kind = "graphics"
    /\ history[2].regs.color_control_mode = "FmaskDecompress"
    /\ history[2].regs.primitive_type = "TriangleList"
    /\ history[2].result = Null
    /\ program_cache # <<>>

\* C16: after every RefreshGraphicsKey the depth-enable bit of the key is set
\* only if the depth format of the key is not undefined, and the
\* stencil-enable bit only if the stencil format of the key is not undefined.
C16_EnableBitsNeedFormat ==
    \A n \in GraphicsCalls :
        history[n].refreshed
        => /\ history[n].key.depth_stencil.depth_enable
                => history[n].key.depth_format # Undefined
           /\ history[n].key.depth_stencil.stencil_enable
                => history[n].key.stencil_format # Undefined

\* Keys were refreshed from snapshots that set both enable bits, once with
\* both formats valid (the bits stay set) and once with none (they are cleared).
C16_Witness ==
    \E i, j \in GraphicsCalls :
        /\ history[i].refreshed
        /\ history[j].refreshed
        /\ history[i].regs.depth_control.depth_enable
        /\ history[i].regs.depth_control.stencil_enable
        /\ history[j].regs.depth_control.depth_enable
        /\ history[j].regs.depth_control.stencil_enable
        /\ history[i].key.depth_stencil.depth_enable
        /\ history[i].key.depth_stencil.stencil_enable
        /\ ~history[j].key.depth_stencil.depth_enable
        /\ ~history[j].key.depth_stencil.stencil_enable
        /\ history[j].regs.z_format = "Invalid"

\* C17: after every RefreshGraphicsKey the depth format of the key is
\* undefined exactly when the depth (Z) format register is invalid, and the
\* stencil format of the key is undefined exactly when the stencil format
\* register is invalid, each decided by its own register.
C17_FormatsFollowOwnRegister ==
    \A n \in GraphicsCalls :
        history[n].refreshed
        => /\ (history[n].key.depth_format = Undefined)
                <=> (history[n].regs.z_format = "Invalid")
           /\ (history[n].key.stencil_format = Undefined)
                <=> (history[n].regs.stencil_format = "Invalid")

\* An enabled stage other than vertex and fragment has a program bound with a
\* valid binary-info header.
HasUnsupportedStage(r) ==
    \E i \in Stages :
        /\ i # VertexIndex
        /\ i # FragmentIndex
        /\ r.stage_enable[i]
        /\ r.programs[i].address # 0
        /\ r.programs[i].valid

\* C18: when an enabled stage other than vertex and fragment has a program
\* with a valid binary-info header, RefreshGraphicsKey returns failure and has
\* not compiled that stage, and GetGraphicsPipeline returns null and adds no
\* entry to the graphics pipeline map.
C18_UnsupportedStageRejected ==
    /\ \A n \in GraphicsCalls :
            HasUnsupportedStage(history[n].regs)
            => /\ ~history[n].ok
               /\ history[n].result = Null
               /\ ~history[n].created
               /\ \A m \in DOMAIN history[n].programs :
                    StageSupported(history[n].programs[m].stage)
    /\ \A k \in DOMAIN graphics_pipelines :
            \E n \in GraphicsCalls :
                /\ history[n].key = k
                /\ history[n].ok
                /\ ~HasUnsupportedStage(history[n].regs)

\* A draw with a geometry shader was rejected after its pixel and vertex
\* shaders were compiled.
C18_Witness ==
    \E n \in GraphicsCalls :
        /\ history[n].regs.stage_enable[2]
        /\ history[n].regs.programs[2].valid
        /\ history[n].refreshed
        /\ ~history[n].ok
        /\ Len(history[n].programs) = 2

\* Stage i of the snapshot is enabled and has a program with a valid header.
StageUsable(r, i) ==
    /\ r.stage_enable[i]
    /\ r.programs[i].address # 0
    /\ r.programs[i].valid

\* The refresh of the snapshot reaches stage i and aborts there on a denylist
\* hit: no stage before it is rejected.
DenylistHitAt(r, i) ==
    /\ ~NeedsNoPipeline(r)
    /\ StageUsable(r, i)
    /\ r.programs[i].hash \in skip_hashes
    /\ \A j \in Stages :
            (j < i /\ StageUsable(r, j))
            => /\ r.programs[j].hash \notin skip_hashes
               /\ StageSupported(StageFromIndex(j))
               /\ ~(r.stage_enable[TessIndex] /\ r.programs[TessIndex].address # 0)

\* C19: a graphics key refresh that aborts on a denylist hit in some stage has
\* invoked the translator zero times and has added no program or permutation
\* to the program cache, also when an enabled stage whose shader was not yet
\* cached comes before the denylisted stage.
C19_DenylistBeforeCompilation ==
    [][ ( /\ Len(history') = Len(history) + 1
          /\ Last(history').kind = "graphics"
          /\ \E i \in Stages : DenylistHitAt(Last(history').regs, i) )
        => ( /\ ~Last(history').ok
             /\ Last(history').programs = <<>>
             /\ num_modules' = num_modules
             /\ program_cache' = program_cache ) ]_vars

\* The sum of the binding counts of the first m GetProgram calls of a list.
RECURSIVE BindingsBefore(_, _)
BindingsBefore(programs, m) ==
    IF m = 0 THEN 0
    ELSE BindingsBefore(programs, m - 1) + ShaderNumBindings(programs[m].pgm_hash)

\* The stage index of the graphics stage of that name.
IndexOfStage(stage) == CHOOSE i \in Stages : StageFromIndex(i) = stage

\* C13: within one key refresh the binding allocator starts at 0, goes
\* through the accepted stages in increasing stage index and never decreases:
\* every stage receives the sum of the binding counts of the accepted stages
\* before it and leaves that sum plus its own binding count, whether its
\* permutation was compiled or reused.
C13_BindingAllocator ==
    \A n \in DOMAIN history :
        \A m \in DOMAIN history[n].programs :
            /\ history[n].programs[m].start_binding
                    = BindingsBefore(history[n].programs, m - 1)
            /\ history[n].programs[m].binding
                    = history[n].programs[m].start_binding
                      + ShaderNumBindings(history[n].programs[m].pgm_hash)
            /\ history[n].programs[m].binding >= history[n].programs[m].start_binding
            /\ m > 1 => IndexOfStage(history[n].programs[m - 1].stage)
                            < IndexOfStage(history[n].programs[m].stage)

\* A draw whose pixel shader was a cache hit with a binding count above zero
\* and whose vertex shader followed it, after an earlier draw that compiled
\* the same pixel shader and gave its vertex shader the same binding.
C13_Witness ==
    \E a, b \in GraphicsCalls :
        /\ a < b
        /\ Len(history[a].programs) = 2
        /\ Len(history[b].programs) = 2
        /\ history[a].programs[1].pgm_hash = history[b].programs[1].pgm_hash
        /\ history[a].programs[1].compiled
        /\ ~history[b].programs[1].compiled
        /\ history[b].programs[2].start_binding > 0
        /\ history[b].programs[2].start_binding = history[a].programs[2].start_binding

\* Every entry of the map old is in the map new with the same value.
MapKept(old, new) ==
    \A k \in DOMAIN old : k \in DOMAIN new /\ new[k] = old[k]

\* Every program of the cache old is in the cache new with the same info and
\* with its permutations, in their order, at the front of the list.
ProgramsKept(old, new) ==
    \A h \in DOMAIN old :
        /\ h \in DOMAIN new
        /\ new[h].info = old[h].info
        /\ Len(new[h].modules) >= Len(old[h].modules)
        /\ \A k \in DOMAIN old[h].modules : new[h].modules[k] = old[h].modules[k]

\* C14: the caches only grow: every step keeps each program entry, keeps each
\* permutation at its index with its specialization descriptor and module, and
\* keeps each key of the two pipeline maps mapped to the same pipeline object.
C14_CachesOnlyGrow ==
    [][ /\ ProgramsKept(program_cache, program_cache')
        /\ MapKept(graphics_pipelines, graphics_pipelines')
        /\ MapKept(compute_pipelines, compute_pipelines')
        /\ num_modules' >= num_modules
        /\ num_pipelines' >= num_pipelines ]_vars

\* A program got a second permutation and the graphics map a second key, and
\* the pipeline the first call created is still the one its key maps to.
C14_Witness ==
    /\ \E h \in DOMAIN program_cache : Len(program_cache[h].modules) >= 2
    /\ Cardinality(DOMAIN graphics_pipelines) >= 2
    /\ Len(history) >= 3
    /\ history[1].created
    /\ history[1].kind = "graphics"
    /\ graphics_pipelines[history[1].key] = history[1].result

\* C20: no program holds two permutations with equal specialization
\* descriptors; a GetProgram call that compiled a permutation for a program
\* already in the cache had a descriptor no earlier call for that program had;
\* and the descriptor of a program's first permutation holds the binding value
\* its GetProgram call received, from before the compilation.
C20_NoDuplicateDescriptors ==
    /\ \A h \in DOMAIN program_cache :
            \A i, j \in DOMAIN program_cache[h].modules :
                i # j => program_cache[h].modules[i].spec
                            # program_cache[h].modules[j].spec
    /\ \A a, b \in ProgramCalls :
            ( /\ ProgramCallAt(a).pgm_hash = ProgramCallAt(b).pgm_hash
              /\ ProgramCallAt(b).compiled
              /\ (a[1] < b[1] \/ (a[1] = b[1] /\ a[2] < b[2])) )
            => ProgramCallAt(a).spec # ProgramCallAt(b).spec
    /\ \A a \in ProgramCalls :
            ProgramCallAt(a).new_program
            => /\ program_cache[ProgramCallAt(a).pgm_hash].modules[1].spec
                    = ProgramCallAt(a).spec
               /\ program_cache[ProgramCallAt(a).pgm_hash].modules[1].spec.start_binding
                    = ProgramCallAt(a).start_binding

\* A program holds two permutations, its second one was requested again and
\* reused, and its first permutation was compiled at a binding above zero.
C20_Witness ==
    \E a, b, c \in ProgramCalls :
        /\ ProgramCallAt(a).new_program
        /\ ProgramCallAt(a).start_binding > 0
        /\ ProgramCallAt(a).binding > ProgramCallAt(a).start_binding
        /\ ProgramCallAt(b).pgm_hash = ProgramCallAt(a).pgm_hash
        /\ ProgramCallAt(b).compiled
        /\ ProgramCallAt(b).perm_idx = 1
        /\ ProgramCallAt(c).pgm_hash = ProgramCallAt(a).pgm_hash
        /\ ~ProgramCallAt(c).compiled
        /\ ProgramCallAt(c).perm_idx = 1
        /\ Len(program_cache[ProgramCallAt(a).pgm_hash].modules) = 2

\* The second pass of the refresh of snapshot r wrote write_masks[j] and
\* blend_controls[j]: it packs the surviving slots at the indices from 0 on.
FilledBySecondPass(r, mrt_mask, j) ==
    j < Len(SurvivingSlots(r, mrt_mask, NumColorBuffers))

\* Index j of the per-target arrays of key is populated the same way in each:
\* a non-zero write mask or a non-default blend control only with a format,
\* and a format only where the second pass filled in the write mask.
PopulatedAlike(key, r, j) ==
    /\ (key.write_masks[j] # 0 \/ key.blend_controls[j] # NoBlend)
            => key.color_formats[j] # Undefined
    /\ key.color_formats[j] # Undefined
            => FilledBySecondPass(r, key.mrt_mask, j)

\* C21: after every successful RefreshGraphicsKey the per-target arrays of the
\* key agree on which compacted indices are populated: at every index a
\* non-zero write mask or a non-default blend control comes with a format that
\* is not undefined, and a format that is not undefined comes with a write
\* mask the second pass filled in.
C21_TargetArraysAgree ==
    \A n \in GraphicsCalls :
        history[n].ok
        => \A j \in Slots : PopulatedAlike(history[n].key, history[n].regs, j)

====
